---- MODULE Spec2Model ----
(***************************************************************************)
(* perseus-tailwind: the build-time hook that runs the Tailwind CLI.       *)
(*                                                                         *)
(* The model follows src/src/lib.rs: the two registered hooks              *)
(* (before_build, before_export) call try_run_tailwind, which creates      *)
(* tailwind.config.js through init_tailwind when it does not exist, builds *)
(* the argument vector, runs the external process to completion, decodes   *)
(* its standard error with String::from_utf8_lossy and panics when the     *)
(* decoded text contains '}'.                                              *)
(*                                                                         *)
(* Texts are sequences of Unicode code points, byte streams are sequences  *)
(* of bytes (0..255), so that the lossy decoding is a real conversion.     *)
(***************************************************************************)
EXTENDS Integers, Sequences, FiniteSets, TLC

VARIABLES
    config,     \* the file tailwind.config.js: [exists, content]
    options,    \* the TailwindOptions value registered with the plugin
    release,    \* cfg!(not(debug_assertions)) of the build of the plugin
    hook,       \* the hook that made the current invocation
    phase,      \* position of the current invocation of try_run_tailwind
    args,       \* argument vector given to Command::args (<<>> before that)
    spawns,     \* number of processes spawned by the current invocation
    proc,       \* the std::process::Output of the process, or NoOutput
    output,     \* the decoded standard error (the second `output` binding)
    panicked,   \* the panic that ended the invocation, or NoPanic
    result,     \* what the hook closure returned, "None" while it has not
    atStart,    \* history: the config file when the invocation started
    writes,     \* history: file modifications made by the invocation
    prev        \* history: the last earlier invocation that captured output

vars == <<config, options, release, hook, phase, args, spawns, proc, output,
          panicked, result, atStart, writes, prev>>

----------------------------------------------------------------------------
(* Bounds of the model *)

\* longest standard-error stream the external process produces
MaxStderrLen == 2

----------------------------------------------------------------------------
(* Values *)

\* '}' and U+FFFD REPLACEMENT CHARACTER
RightBrace == 125
ReplacementChar == 65533

\* bytes the external process writes: 'a', '}', and the two bytes of the
\* UTF-8 encoding of U+00E9 (0xC3 0xA9), each of which is invalid on its own
Bytes == {97, 125, 195, 169}

RECURSIVE SeqsUpTo(_, _)
SeqsUpTo(S, n) ==
    IF n = 0 THEN {<<>>}
    ELSE LET shorter == SeqsUpTo(S, n - 1)
         IN  shorter \cup {Append(s, b) : s \in {t \in shorter : Len(t) = n - 1}, b \in S}

StderrStreams == SeqsUpTo(Bytes, MaxStderrLen)
StdoutStreams == {<<>>, <<97>>}
ExitCodes == {0, 1}

Range(s) == {s[i] : i \in 1..Len(s)}

\* the bytes of src/default-config.js, embedded by include_bytes!
DefaultConfig == <<109, 111>>
\* a configuration written by the user before the first build
UserConfig == <<117>>

InFiles == {"", "my styles/tail wind.css"}
OutFiles == {"", "dist/static/tailwind.css"}
Hooks == {"before_build", "before_export"}

NoFile == [exists |-> FALSE, content |-> <<>>]
File(bytes) == [exists |-> TRUE, content |-> bytes]

NoOutput == [captured |-> FALSE, stderr |-> <<>>, stdout |-> <<>>, status |-> 0]
NoPanic == [raised |-> FALSE, fmt |-> <<>>, arg |-> <<>>]
NoRun == [captured |-> FALSE, stderr |-> <<>>, stdout |-> <<>>, status |-> 0,
          outcome |-> "None"]

\* the messages of the three expect calls, word by word
CreateFailedMsg == <<"Failed", "to", "create", "config", "file">>
WriteFailedMsg == <<"Failed", "to", "write", "default", "config">>
RunFailedMsg == <<"Failed", "to", "run", "Tailwind", "CLI">>

----------------------------------------------------------------------------
(* Pure functions *)

\* String::from_utf8_lossy on streams of one- and two-byte sequences: an
\* ASCII byte is itself, a lead byte 0xC2..0xDF followed by a continuation
\* byte 0x80..0xBF is one code point, and any other byte is a maximal
\* invalid sequence of length one, replaced by U+FFFD.
IsAscii(b) == b < 128
IsLead2(b) == b >= 194 /\ b <= 223
IsCont(b) == b >= 128 /\ b <= 191

RECURSIVE FromUtf8Lossy(_)
FromUtf8Lossy(bytes) ==
    IF bytes = <<>> THEN <<>>
    ELSE LET b == Head(bytes)
             rest == Tail(bytes)
         IN  IF IsAscii(b) THEN <<b>> \o FromUtf8Lossy(rest)
             ELSE IF IsLead2(b) /\ rest # <<>> /\ IsCont(Head(rest))
                  THEN <<(b % 32) * 64 + (Head(rest) % 64)>> \o FromUtf8Lossy(Tail(rest))
                  ELSE <<ReplacementChar>> \o FromUtf8Lossy(rest)

\* str::contains('}')
ContainsBraceMutNonEmpty(text) == text # <<>>
ContainsBrace(text) == RightBrace \in Range(text)

\* lines 110-115: the stderr of the process output is decoded and searched;
\* stdout and status are not read
IsFailureMutStatus(out) ==
    ContainsBrace(FromUtf8Lossy(out.stderr)) \/ out.status # 0
IsFailure(out) == ContainsBrace(FromUtf8Lossy(out.stderr))

\* lines 100-104
BuildArgsMutAlwaysFlags(opts, rel) ==
    <<"build", opts.in_file, "-o", opts.out_file, "-m", "-p">>
BuildArgs(opts, rel) ==
    <<"build", opts.in_file, "-o", opts.out_file>>
        \o (IF rel THEN <<"-m", "-p">> ELSE <<>>)

\* line 96: PathBuf::from("tailwind.config.js").exists()
ConfigExistsMutNever(cfg) == FALSE
ConfigExists(cfg) == cfg.exists

\* line 116: panic!("{}", output)
PanicWithMutTruncated(text) ==
    [raised |-> TRUE, fmt |-> <<"{}">>,
     arg |-> IF text = <<>> THEN <<>> ELSE SubSeq(text, 1, Len(text) - 1)]
PanicWith(text) == [raised |-> TRUE, fmt |-> <<"{}">>, arg |-> text]

\* Result::expect(msg) on an Err
ExpectPanic(msg) == [raised |-> TRUE, fmt |-> msg, arg |-> <<>>]

\* lines 106-109: what the failed expect of the run leaves behind
RunFailedMutRetry == [phase |-> "ConfigEnsured", panicked |-> NoPanic]
RunFailed == [phase |-> "Aborted", panicked |-> ExpectPanic(RunFailedMsg)]

\* lines 115-118: the panic ends the invocation, otherwise it returns
OutcomeMutRetry(failed) == IF failed THEN "ConfigEnsured" ELSE "Succeeded"
Outcome(failed) == IF failed THEN "Aborted" ELSE "Succeeded"

\* write_all(default_config) that succeeds
WriteAllOkMutNothing(cfg, bytes) == cfg
WriteAllOk(cfg, bytes) == File(cfg.content \o bytes)

\* init_tailwind, lines 121-130: every way the call can end.  File::create
\* fails and leaves no file; or it creates the empty file and write_all
\* fails after k bytes, k < Len(default_config); or both succeed.
InitTailwindMutIgnoreErrors ==
    {[config |-> NoFile, panicked |-> NoPanic, writes |-> 0]}
    \cup {[config |-> File(SubSeq(DefaultConfig, 1, k)),
           panicked |-> NoPanic, writes |-> 2]
          : k \in 0..(Len(DefaultConfig) - 1)}
    \cup {[config |-> WriteAllOk(File(<<>>), DefaultConfig),
           panicked |-> NoPanic, writes |-> 2]}
InitTailwind ==
    {[config |-> NoFile, panicked |-> ExpectPanic(CreateFailedMsg), writes |-> 0]}
    \cup {[config |-> File(SubSeq(DefaultConfig, 1, k)),
           panicked |-> ExpectPanic(WriteFailedMsg), writes |-> 2]
          : k \in 0..(Len(DefaultConfig) - 1)}
    \cup {[config |-> WriteAllOk(File(<<>>), DefaultConfig),
           panicked |-> NoPanic, writes |-> 2]}

----------------------------------------------------------------------------
(* State machine *)

Init ==
    /\ config \in {NoFile, File(UserConfig)}
    /\ options \in [in_file : InFiles, out_file : OutFiles]
    /\ release \in BOOLEAN
    /\ hook = "none"
    /\ phase = "Idle"
    /\ args = <<>>
    /\ spawns = 0
    /\ proc = NoOutput
    /\ output = <<>>
    /\ panicked = NoPanic
    /\ result = "None"
    /\ atStart = config
    /\ writes = 0
    /\ prev = NoRun

\* The host pipeline reaches one of the two hook points (lines 67, 78) and
\* the registered closure calls try_run_tailwind(options).  The pipeline is
\* single-flight: a hook runs only when no invocation is under way.
Invoke(h) ==
    /\ phase \in {"Idle", "Succeeded", "Aborted"}
    /\ hook' = h
    /\ phase' = "NotStarted"
    /\ args' = <<>>
    /\ spawns' = 0
    /\ proc' = NoOutput
    /\ output' = <<>>
    /\ panicked' = NoPanic
    /\ result' = "None"
    /\ atStart' = config
    /\ writes' = 0
    /\ prev' = IF proc.captured
               THEN [captured |-> TRUE, stderr |-> proc.stderr,
                     stdout |-> proc.stdout, status |-> proc.status,
                     outcome |-> phase]
               ELSE prev
    /\ UNCHANGED <<config, options, release>>

\* lines 96-98
EnsureConfig ==
    /\ phase = "NotStarted"
    /\ IF ConfigExists(config)
       THEN /\ phase' = "ConfigEnsured"
            /\ UNCHANGED <<config, panicked, writes>>
       ELSE \E o \in InitTailwind :
                /\ config' = o.config
                /\ panicked' = o.panicked
                /\ writes' = writes + o.writes
                /\ phase' = IF o.panicked.raised THEN "Aborted" ELSE "ConfigEnsured"
    /\ UNCHANGED <<options, release, hook, args, spawns, proc, output, result,
                   atStart, prev>>

\* lines 100-109: the arguments are built and Command::output spawns the
\* process, or fails to
SpawnCli ==
    /\ phase = "ConfigEnsured"
    /\ args' = BuildArgs(options, release)
    /\ \/ /\ spawns' = spawns + 1
          /\ phase' = "ProcessSpawned"
          /\ UNCHANGED panicked
       \/ /\ phase' = RunFailed.phase
          /\ panicked' = RunFailed.panicked
          /\ UNCHANGED spawns
    /\ UNCHANGED <<config, options, release, hook, proc, output, result,
                   atStart, writes, prev>>

\* lines 106-110: Command::output waits for the process and collects its
\* streams, or fails while waiting; stderr is then decoded
CaptureOutput ==
    /\ phase = "ProcessSpawned"
    /\ \/ \E e \in StderrStreams, o \in StdoutStreams, c \in ExitCodes :
              /\ proc' = [captured |-> TRUE, stderr |-> e, stdout |-> o, status |-> c]
              /\ output' = FromUtf8Lossy(e)
              /\ phase' = "OutputCaptured"
              /\ UNCHANGED panicked
       \/ /\ phase' = "Aborted"
          /\ panicked' = ExpectPanic(RunFailedMsg)
          /\ UNCHANGED <<proc, output>>
    /\ UNCHANGED <<config, options, release, hook, args, spawns, result,
                   atStart, writes, prev>>

\* lines 115-118, and the Ok(()) of the hook closure (lines 70, 81)
Classify ==
    /\ phase = "OutputCaptured"
    /\ phase' = Outcome(IsFailure(proc))
    /\ IF IsFailure(proc)
       THEN /\ panicked' = PanicWith(output)
            /\ UNCHANGED result
       ELSE /\ result' = "Ok"
            /\ UNCHANGED panicked
    /\ UNCHANGED <<config, options, release, hook, args, spawns, proc, output,
                   atStart, writes, prev>>

Next ==
    \/ \E h \in Hooks : Invoke(h)
    \/ EnsureConfig
    \/ SpawnCli
    \/ CaptureOutput
    \/ Classify

Spec == Init /\ [][Next]_vars

----------------------------------------------------------------------------
(* Helpers of the properties *)

Terminal == phase \in {"Succeeded", "Aborted"}
Classified == proc.captured /\ Terminal

\* the UTF-8 encoding of a text, as str::as_bytes gives it
RECURSIVE Utf8Encode(_)
Utf8Encode(text) ==
    IF text = <<>> THEN <<>>
    ELSE LET c == Head(text)
             enc == IF c < 128 THEN <<c>>
                    ELSE IF c < 2048 THEN <<192 + (c \div 64), 128 + (c % 64)>>
                    ELSE <<224 + (c \div 4096), 128 + ((c \div 64) % 64), 128 + (c % 64)>>
         IN  enc \o Utf8Encode(Tail(text))

\* a byte stream that is well-formed UTF-8 (one- and two-byte sequences)
RECURSIVE ValidUtf8(_)
ValidUtf8(bytes) ==
    IF bytes = <<>> THEN TRUE
    ELSE IF IsAscii(Head(bytes)) THEN ValidUtf8(Tail(bytes))
    ELSE /\ IsLead2(Head(bytes))
         /\ Len(bytes) >= 2
         /\ IsCont(bytes[2])
         /\ ValidUtf8(Tail(Tail(bytes)))

\* a message that tells the user the binary has to be on the build machine
RequirementWords ==
    {"must", "present", "installed", "install", "exist", "exists", "required",
     "environment", "env", "PATH", "found"}
StatesBinaryRequired(msg) == \E i \in 1..Len(msg) : msg[i] \in RequirementWords

\* the process could not be started: arguments were built, nothing spawned
SpawnFailed == args # <<>> /\ spawns = 0

----------------------------------------------------------------------------
(* C1 *)

\* C1: an invocation that captured the stderr of the process ends in failure
\* (panic) exactly when the raw stderr contains the byte of '}'; every other
\* stderr, empty or informational, ends in success and the hook returns Ok.
C1_FailureIffBrace ==
    Classified =>
        /\ (phase = "Aborted") <=> (RightBrace \in Range(proc.stderr))
        /\ (phase = "Succeeded") <=> (result = "Ok")
        /\ (phase = "Aborted") <=> panicked.raised

C1_Witness ==
    /\ phase = "Succeeded"
    /\ result = "Ok"
    /\ proc.captured
    /\ proc.stderr = <<97, 195>>

----------------------------------------------------------------------------
(* C2 *)

\* C2: the argument vector handed to the CLI is ["build", in_file, "-o",
\* out_file] in a debug build and the same followed by "-m", "-p" in a
\* release build, for every pair of paths; the suffix is there iff the build
\* is a release build.
C2_ArgVector ==
    /\ (spawns > 0 \/ proc.captured) => args # <<>>
    /\ args # <<>> =>
        /\ Len(args) = (IF release THEN 6 ELSE 4)
        /\ args[1] = "build"
        /\ args[2] = options.in_file
        /\ args[3] = "-o"
        /\ args[4] = options.out_file
        /\ release <=> (Len(args) > 4 /\ args[5] = "-m" /\ args[6] = "-p")

C2_Witness ==
    /\ spawns = 1
    /\ ~release
    /\ options.in_file = "my styles/tail wind.css"
    /\ options.out_file = ""
    /\ Len(args) = 4

----------------------------------------------------------------------------
(* C3 *)

\* C3: when tailwind.config.js exists at the start of an invocation, the
\* invocation makes no modification of the file and its content stays what
\* it was, in every phase of every invocation.
C3_ExistingConfigUntouched ==
    (atStart.exists /\ phase # "Idle") => (config = atStart /\ writes = 0)

C3_Witness ==
    /\ atStart = File(UserConfig)
    /\ config = File(UserConfig)
    /\ prev.captured
    /\ hook = "before_export"
    /\ phase = "Succeeded"

----------------------------------------------------------------------------
(* C4 *)

\* C4: when the file is absent at the start of an invocation and the file
\* operations succeed, the file holds exactly the default template before
\* anything is spawned; no process is ever spawned while the file is absent.
C4_ConfigBeforeSpawn ==
    /\ spawns > 0 => config.exists
    /\ (~atStart.exists /\ phase = "ConfigEnsured") =>
            (config = File(DefaultConfig) /\ spawns = 0 /\ args = <<>>)
    /\ (~atStart.exists /\ spawns > 0) => config = File(DefaultConfig)

C4_Witness ==
    /\ ~atStart.exists
    /\ phase = "ProcessSpawned"
    /\ spawns = 1
    /\ config = File(DefaultConfig)

----------------------------------------------------------------------------
(* C5 *)

\* C5 as stated: when the captured stderr is classified a failure, the panic
\* message is the raw stderr, byte for byte, whatever the process wrote.
C5_RawStderrVerbatim ==
    (Classified /\ phase = "Aborted") =>
        (panicked.fmt = <<"{}">> /\ Utf8Encode(panicked.arg) = proc.stderr)

\* C5 amended: when the captured stderr is classified a failure, the panic
\* message is the lossy UTF-8 decoding of the stderr: byte for byte the
\* stderr when it is well-formed UTF-8, and with U+FFFD in place of every
\* malformed sequence otherwise; nothing is cut or added.
C5_LossyStderr ==
    (Classified /\ phase = "Aborted") =>
        /\ panicked = [raised |-> TRUE, fmt |-> <<"{}">>,
                       arg |-> FromUtf8Lossy(proc.stderr)]
        /\ ValidUtf8(proc.stderr) => Utf8Encode(panicked.arg) = proc.stderr
        /\ ~ValidUtf8(proc.stderr) => ReplacementChar \in Range(panicked.arg)

C5_Witness ==
    /\ phase = "Aborted"
    /\ proc.captured
    /\ proc.stderr = <<97, 125>>
    /\ panicked.arg = <<97, 125>>

----------------------------------------------------------------------------
(* C6 *)

----------------------------------------------------------------------------
(* C7 *)

\* C7: two invocations that captured the same stderr end the same way,
\* whatever the stdout and the exit status of the two processes.
C7_OutcomeDependsOnStderrOnly ==
    (Classified /\ prev.captured /\ prev.stderr = proc.stderr) =>
        prev.outcome = phase

C7_Witness ==
    /\ Classified
    /\ prev.captured
    /\ prev.stderr = proc.stderr
    /\ RightBrace \notin Range(proc.stderr)
    /\ prev.status = 0
    /\ proc.status # 0
    /\ prev.stdout # proc.stdout
    /\ phase = "Succeeded"

----------------------------------------------------------------------------
(* C8 *)

\* C8: whenever the configuration file exists its content is the content the
\* user gave it or exactly the default template, also after invocations in
\* which creating or writing the file failed; no process is spawned against
\* an empty or partly written file.
C8_ContentUserOrDefault ==
    config.exists => config.content \in {UserConfig, DefaultConfig}

----------------------------------------------------------------------------
(* C9 *)

\* C9 as stated: an invocation goes NotStarted, ConfigEnsured,
\* ProcessSpawned, OutputCaptured, then Succeeded or Aborted, every phase
\* once and none skipped.
C9_StrictChainStep ==
    phase' # phase =>
        \/ phase \in {"Idle", "Succeeded", "Aborted"} /\ phase' = "NotStarted"
        \/ phase = "NotStarted" /\ phase' = "ConfigEnsured"
        \/ phase = "ConfigEnsured" /\ phase' = "ProcessSpawned"
        \/ phase = "ProcessSpawned" /\ phase' = "OutputCaptured"
        \/ phase = "OutputCaptured" /\ phase' \in {"Succeeded", "Aborted"}

C9_StrictChain == [][C9_StrictChainStep]_vars

\* C9 amended: an invocation goes through NotStarted, ConfigEnsured,
\* ProcessSpawned, OutputCaptured in that order, none repeated and none
\* skipped on the way to a later one; it ends in Succeeded only from
\* OutputCaptured, or in Aborted, which is entered from any of the four
\* phases.  Succeeded and Aborted are left only by the next invocation,
\* which starts at NotStarted with no process; an invocation spawns at most
\* one process.
C9_PhaseStep ==
    /\ spawns' \in {0, 1}
    /\ spawns' # spawns =>
          \/ phase = "ConfigEnsured" /\ phase' = "ProcessSpawned" /\ spawns' = 1
          \/ phase' = "NotStarted" /\ spawns' = 0
    /\ phase' # phase =>
          \/ phase \in {"Idle", "Succeeded", "Aborted"}
                /\ phase' = "NotStarted" /\ spawns' = 0 /\ ~panicked'.raised
          \/ phase = "NotStarted" /\ phase' \in {"ConfigEnsured", "Aborted"}
          \/ phase = "ConfigEnsured" /\ phase' \in {"ProcessSpawned", "Aborted"}
          \/ phase = "ProcessSpawned" /\ phase' \in {"OutputCaptured", "Aborted"}
          \/ phase = "OutputCaptured" /\ phase' \in {"Succeeded", "Aborted"}
    /\ (phase' = "Aborted") <=> panicked'.raised
    /\ (phase' = "Succeeded") => result' = "Ok"

C9_PhaseOrder == [][C9_PhaseStep]_vars

C9_Witness ==
    /\ phase = "Aborted"
    /\ hook = "before_build"
    /\ spawns = 0
    /\ args = <<>>
    /\ panicked = ExpectPanic(CreateFailedMsg)

----------------------------------------------------------------------------
(* C10 *)

\* C10: when the file was absent at the start of the invocation and it was
\* not created with the whole default template, the invocation is aborted,
\* has spawned nothing and has built no argument vector.
C10_InitFailureAborts ==
    (~atStart.exists /\ phase \notin {"Idle", "NotStarted"}
        /\ config # File(DefaultConfig)) =>
            /\ phase = "Aborted"
            /\ spawns = 0
            /\ args = <<>>
            /\ result = "None"

C10_Witness ==
    /\ ~atStart.exists
    /\ phase = "Aborted"
    /\ config = File(SubSeq(DefaultConfig, 1, 1))
    /\ panicked = ExpectPanic(WriteFailedMsg)

====
